---- MODULE Spec2Model ----
(***************************************************************************)
(* A model of the sorting routines of sorting_tools.py (Python 2):         *)
(* check_types, natural_sort, sort_subsort and quicksort, together with    *)
(* the helpers they call (string_tools.strip_non_alphanumeric and          *)
(* dictionary_tools.LastUpdatedOrderedDict).                               *)
(*                                                                         *)
(* Python strings are TLA+ strings; a character is a string of length 1.   *)
(* A call is one action: Init chooses the arguments, the action applies    *)
(* the function and records what it returned or raised and what it left in *)
(* the caller's list (Spec).  QuickSpec runs quicksort call by call, and   *)
(* CallerSpec runs the threads of threading_tools.RepeatingCaller          *)
(* statement by statement.                                                 *)
(***************************************************************************)
EXTENDS Integers, Sequences, FiniteSets, TLC

(***************************************************************************)
(* Bounds of the model.                                                    *)
(***************************************************************************)
MaxLen == 3

(***************************************************************************)
(* Characters.  AsciiPrintable lists, in byte order, the characters the    *)
(* modelled strings are made of.                                           *)
(***************************************************************************)
AsciiPrintable ==
    " ,-.0123456789:;ABCDEFGHIJKLMNOPQRSTUVWXYZ_abcdefghijklmnopqrstuvwxyz"

UpperCase == "ABCDEFGHIJKLMNOPQRSTUVWXYZ"

LowerCase == "abcdefghijklmnopqrstuvwxyz"

DigitChars == "0123456789"

CharAt(str, i) == SubSeq(str, i, i)

CharsOf(str) == {CharAt(str, i) : i \in 1..Len(str)}

IndexIn(str, c) == CHOOSE i \in 1..Len(str) : CharAt(str, i) = c

\* the rank of a character in byte order (the order str comparison uses)
ord == [c \in CharsOf(AsciiPrintable) |-> IndexIn(AsciiPrintable, c)]

isdigit_char == [c \in CharsOf(AsciiPrintable) |-> c \in CharsOf(DigitChars)]

isalnum_char ==
    [c \in CharsOf(AsciiPrintable) |->
        c \in CharsOf(DigitChars) \cup CharsOf(UpperCase) \cup CharsOf(LowerCase)]

lower_char ==
    [c \in CharsOf(AsciiPrintable) |->
        IF c \in CharsOf(UpperCase) THEN CharAt(LowerCase, IndexIn(UpperCase, c)) ELSE c]

digit_value == [c \in CharsOf(DigitChars) |-> IndexIn(DigitChars, c) - 1]

(***************************************************************************)
(* Python values and built-ins the sorting code relies on.                 *)
(***************************************************************************)
\* the subtoken argument: None, or an integer
None == [none |-> TRUE, v |-> 0]

Index(n) == [none |-> FALSE, v |-> n]

\* seq[i] with Python's indexing: 0-based, negative indices count from the
\* end, anything else is an IndexError
InRange(seq, i) == -Len(seq) <= i /\ i < Len(seq)

PyIndex(seq, i) == IF i >= 0 THEN seq[i + 1] ELSE seq[Len(seq) + i + 1]

RECURSIVE str_cmp(_, _)
\* cmp(a, b) on two str values: byte-wise lexicographic
str_cmp(a, b) ==
    IF Len(a) = 0 \/ Len(b) = 0
    THEN IF Len(a) = Len(b) THEN 0 ELSE IF Len(a) < Len(b) THEN -1 ELSE 1
    ELSE IF ord[Head(a)] < ord[Head(b)] THEN -1
    ELSE IF ord[Head(a)] > ord[Head(b)] THEN 1
    ELSE str_cmp(Tail(a), Tail(b))

RECURSIVE str_lower(_)
str_lower(text) ==
    IF Len(text) = 0 THEN "" ELSE lower_char[Head(text)] \o str_lower(Tail(text))

str_isdigit(text) ==
    Len(text) > 0 /\ \A i \in 1..Len(text) : isdigit_char[CharAt(text, i)]

RECURSIVE str_int(_)
\* int(text) for a string of decimal digits
str_int(text) ==
    IF Len(text) = 0 THEN 0
    ELSE 10 * str_int(SubSeq(text, 1, Len(text) - 1)) + digit_value[CharAt(text, Len(text))]

RECURSIVE str_split(_, _)
\* text.split(delimiter) for a one-character delimiter
str_split(text, delimiter) ==
    IF \A i \in 1..Len(text) : CharAt(text, i) # delimiter
    THEN <<text>>
    ELSE LET i == CHOOSE k \in 1..Len(text) :
                     /\ CharAt(text, k) = delimiter
                     /\ \A j \in 1..(k - 1) : CharAt(text, j) # delimiter
         IN  <<SubSeq(text, 1, i - 1)>> \o str_split(SubSeq(text, i + 1, Len(text)), delimiter)

RECURSIVE str_join(_, _)
\* sep.join(tokens)
str_join(sep, tokens) ==
    IF Len(tokens) = 0 THEN ""
    ELSE IF Len(tokens) = 1 THEN tokens[1]
    ELSE tokens[1] \o sep \o str_join(sep, Tail(tokens))

RECURSIVE strip_non_alphanumeric(_)
\* string_tools.strip_non_alphanumeric: delete every character that is not
\* an ASCII letter or digit
strip_non_alphanumeric(source_string) ==
    IF Len(source_string) = 0 THEN ""
    ELSE (IF isalnum_char[Head(source_string)] THEN Head(source_string) ELSE "")
         \o strip_non_alphanumeric(Tail(source_string))

\* the length of the maximal run of digits (d) or of non-digits (~d) that
\* text starts with
run_length(text, d) ==
    IF \A i \in 1..Len(text) : isdigit_char[CharAt(text, i)] = d
    THEN Len(text)
    ELSE (CHOOSE k \in 1..Len(text) :
              /\ isdigit_char[CharAt(text, k)] # d
              /\ \A j \in 1..(k - 1) : isdigit_char[CharAt(text, j)] = d) - 1

RECURSIVE re_split_digits(_)
\* filter(None, re.split("([0-9]+)", stripped)): the maximal runs of digits
\* and of non-digits, in order
re_split_digits(stripped) ==
    IF Len(stripped) = 0 THEN <<>>
    ELSE LET n == run_length(stripped, isdigit_char[Head(stripped)])
         IN  <<SubSeq(stripped, 1, n)>> \o re_split_digits(SubSeq(stripped, n + 1, Len(stripped)))

(***************************************************************************)
(* natural_sort.  A converted subtoken is [isnum, n, t]: an int n or a     *)
(* lower-cased str t.  A sort key is [sentinel, toks]: the int 0 that      *)
(* alphanum_key returns on IndexError, or a list of converted subtokens.   *)
(***************************************************************************)
\* a conversion that leaves digit runs as text
convert_text(text) == [isnum |-> FALSE, n |-> 0, t |-> str_lower(text)]

convert(text) ==
    IF str_isdigit(text)
    THEN [isnum |-> TRUE, n |-> str_int(text), t |-> ""]
    ELSE [isnum |-> FALSE, n |-> 0, t |-> str_lower(text)]

split(key, pos) == re_split_digits(strip_non_alphanumeric(PyIndex(key, pos)))

\* a cmp in which an int orders behind a str
subtoken_cmp_text_first(a, b) ==
    IF a.isnum /\ b.isnum THEN (IF a.n < b.n THEN -1 ELSE IF a.n > b.n THEN 1 ELSE 0)
    ELSE IF a.isnum THEN 1
    ELSE IF b.isnum THEN -1
    ELSE str_cmp(a.t, b.t)

\* cmp of two converted subtokens (Python 2: an int orders before a str)
subtoken_cmp(a, b) ==
    IF a.isnum /\ b.isnum THEN (IF a.n < b.n THEN -1 ELSE IF a.n > b.n THEN 1 ELSE 0)
    ELSE IF a.isnum THEN -1
    ELSE IF b.isnum THEN 1
    ELSE str_cmp(a.t, b.t)

RECURSIVE list_cmp(_, _)
\* cmp of two lists of converted subtokens: element-wise, a prefix first
list_cmp(a, b) ==
    IF Len(a) = 0 \/ Len(b) = 0
    THEN IF Len(a) = Len(b) THEN 0 ELSE IF Len(a) < Len(b) THEN -1 ELSE 1
    ELSE IF subtoken_cmp(Head(a), Head(b)) # 0 THEN subtoken_cmp(Head(a), Head(b))
    ELSE list_cmp(Tail(a), Tail(b))

\* cmp that takes the key of a missing field for an empty list
key_cmp_as_empty(a, b) == list_cmp(a.toks, b.toks)

\* cmp of two sort keys (Python 2: the int 0 orders before every list)
key_cmp(a, b) ==
    IF a.sentinel /\ b.sentinel THEN 0
    ELSE IF a.sentinel THEN -1
    ELSE IF b.sentinel THEN 1
    ELSE list_cmp(a.toks, b.toks)

\* [convert(c) for c in split(key, pos)]
converted(parts) == [i \in 1..Len(parts) |-> convert(parts[i])]

\* the one subtoken at the index, not the subtokens from the index on
subtokens_single(subtoken_list, subtoken) ==
    IF subtoken.none \/ ~InRange(subtoken_list, subtoken.v) THEN subtoken_list
    ELSE <<PyIndex(subtoken_list, subtoken.v)>>

\* [subtoken_list[s] for s in xrange(subtoken, len(subtoken_list))], and the
\* whole subtoken_list when that raises TypeError (subtoken is None) or
\* IndexError (a negative subtoken before the start of the list)
subtokens_from(subtoken_list, subtoken) ==
    IF subtoken.none THEN subtoken_list
    ELSE IF subtoken.v >= Len(subtoken_list) THEN <<>>
    ELSE IF subtoken.v < -Len(subtoken_list) THEN subtoken_list
    ELSE [i \in 1..(Len(subtoken_list) - subtoken.v) |->
             PyIndex(subtoken_list, subtoken.v + i - 1)]

\* a key function that returns 0 for a subtoken that is None as well
alphanum_key_or_zero(key, pos, subtoken) ==
    IF ~InRange(key, pos) \/ subtoken.none
    THEN [sentinel |-> TRUE, toks |-> <<>>]
    ELSE [sentinel |-> FALSE, toks |-> subtokens_from(converted(split(key, pos)), subtoken)]

alphanum_key(key, pos, subtoken) ==
    IF ~InRange(key, pos)
    THEN [sentinel |-> TRUE, toks |-> <<>>]
    ELSE [sentinel |-> FALSE, toks |-> subtokens_from(converted(split(key, pos)), subtoken)]

\* an ordering that lets a later member overtake members with an equal key
stays_before_strict(member_key, x_key) == key_cmp(member_key, x_key) < 0

\* sorted() is stable: a member stays in front of a later member x unless its
\* key is greater than the key of x
stays_before(member_key, x_key) == key_cmp(member_key, x_key) <= 0

RECURSIVE sorted_insert(_, _, _, _)
\* place x behind every member of the sorted sequence that stays before it
sorted_insert(done, x, pos, subtoken) ==
    IF Len(done) = 0 THEN <<x>>
    ELSE IF stays_before(alphanum_key(done[Len(done)], pos, subtoken),
                         alphanum_key(x, pos, subtoken))
    THEN Append(done, x)
    ELSE Append(sorted_insert(SubSeq(done, 1, Len(done) - 1), x, pos, subtoken),
                done[Len(done)])

RECURSIVE sorted(_, _, _)
\* the built-in sorted(list_, key=alphanum_key): a stable sort
sorted(list_, pos, subtoken) ==
    IF Len(list_) = 0 THEN <<>>
    ELSE sorted_insert(sorted(SubSeq(list_, 1, Len(list_) - 1), pos, subtoken),
                       list_[Len(list_)], pos, subtoken)

\* a sort that gives up, and returns list_ as it is, when a record has no
\* field at index pos
natural_sort_or_give_up(list_, pos, subtoken) ==
    IF \E i \in 1..Len(list_) : ~InRange(list_[i], pos) THEN list_
    ELSE sorted(list_, pos, subtoken)

natural_sort(list_, pos, subtoken) == sorted(list_, pos, subtoken)

(***************************************************************************)
(* Members of list_ and of sort_map.  A Python value is [type, s, l, v]:   *)
(* a str holds its text in s; a list holds its str members in l and its    *)
(* int members in v; a tuple holds its components in v; an int holds its   *)
(* value in v.                                                             *)
(***************************************************************************)
Str(text) == [type |-> "str", s |-> text, l |-> <<>>, v |-> <<>>]

List(tokens) == [type |-> "list", s |-> "", l |-> tokens, v |-> <<>>]

IntList(ints) == [type |-> "list", s |-> "", l |-> <<>>, v |-> ints]

Tuple(ints) == [type |-> "tuple", s |-> "", l |-> <<>>, v |-> ints]

Integer(n) == [type |-> "int", s |-> "", l |-> <<>>, v |-> <<n>>]

\* float("nan")
NaN == [type |-> "float", s |-> "nan", l |-> <<>>, v |-> <<>>]

is_nan(x) == x.type = "float"

\* the types of the members of check_list: a member of list_ that is a list
\* is replaced by its own members
flat_types(list_) ==
    UNION {IF list_[i].type = "list"
           THEN {"str" : k \in 1..Len(list_[i].l)} \cup {"int" : k \in 1..Len(list_[i].v)}
           ELSE {list_[i].type} : i \in 1..Len(list_)}

check_types(list_, type_) == \A t \in flat_types(list_) : t = type_

(***************************************************************************)
(* dictionary_tools.LastUpdatedOrderedDict, as the sequence of its         *)
(* [key, val] items in iteration order.                                    *)
(***************************************************************************)
dict_contains(d, key) == \E i \in 1..Len(d) : d[i].key = key

dict_index(d, key) == CHOOSE i \in 1..Len(d) : d[i].key = key

dict_delitem(d, key) == SelectSeq(d, LAMBDA item : item.key # key)

\* LastUpdatedOrderedDict.__setitem__
dict_setitem(d, key, value) ==
    Append(IF dict_contains(d, key) THEN dict_delitem(d, key) ELSE d,
           [key |-> key, val |-> value])

\* d[key] = d[key] + [line]: an append that sets the item anew
dict_setitem_append(d, key, line) ==
    dict_setitem(d, key, Append(d[dict_index(d, key)].val, line))

\* d[key].append(line): __getitem__ and an in-place append to the list
dict_getitem_append(d, key, line) ==
    [d EXCEPT ![dict_index(d, key)].val = Append(@, line)]

(***************************************************************************)
(* sort_subsort                                                            *)
(***************************************************************************)
\* a grouping on the case-folded, stripped field in place of the raw field
group_key_folded(line, pre_p) == str_lower(strip_non_alphanumeric(PyIndex(line, pre_p)))

\* the key of sub_lists a line is filed under: line[pre_p]
group_key(line, pre_p) == PyIndex(line, pre_p)

RECURSIVE group_lines(_, _, _)
\* the loop "for line in current_sort" that fills sub_lists; abort is TRUE
\* when line[pre_p] raises IndexError
group_lines(lines, pre_p, sub_lists) ==
    IF Len(lines) = 0 THEN [abort |-> FALSE, sub_lists |-> sub_lists]
    ELSE LET line == Head(lines)
         IN  IF ~InRange(line, pre_p)
             THEN [abort |-> TRUE, sub_lists |-> sub_lists]
             ELSE LET key == group_key(line, pre_p)
                  IN  IF dict_contains(sub_lists, key)
                      THEN group_lines(Tail(lines), pre_p,
                                       dict_getitem_append(sub_lists, key, line))
                      ELSE group_lines(Tail(lines), pre_p,
                                       dict_getitem_append(
                                           dict_setitem(sub_lists, key, <<>>), key, line))

RECURSIVE sort_groups(_, _, _)
\* the loop "for key, sub_list in sub_lists.iteritems()"
sort_groups(sub_lists, p, s) ==
    IF Len(sub_lists) = 0 THEN <<>>
    ELSE natural_sort(Head(sub_lists).val, p, Index(s)) \o sort_groups(Tail(sub_lists), p, s)

\* r with current_sort put in front of its record of the passes
after_pass(current_sort, r) == [r EXCEPT !.passes = <<current_sort>> \o @]

RECURSIVE sort_levels(_, _, _, _, _)
RECURSIVE sort_grouped(_, _, _, _)
RECURSIVE next_level(_, _, _)
\* the loop "for t in sort_map", from its entry number i (1-based) on; passes
\* records the value of current_sort at the end of each iteration
sort_levels(current_sort, sort_map, i, first_run, pre_p) ==
    IF i > Len(sort_map)
    THEN [abort |-> FALSE, current_sort |-> current_sort, passes |-> <<>>]
    ELSE IF first_run
    THEN next_level(natural_sort(current_sort, sort_map[i][1], Index(sort_map[i][2])),
                    sort_map, i)
    ELSE sort_grouped(group_lines(current_sort, pre_p, <<>>), current_sort, sort_map, i)

\* the rest of the else branch of the loop, with g the outcome of the
\* grouping loop
sort_grouped(g, current_sort, sort_map, i) ==
    IF g.abort THEN [abort |-> TRUE, current_sort |-> current_sort, passes |-> <<>>]
    ELSE next_level(sort_groups(g.sub_lists, sort_map[i][1], sort_map[i][2]), sort_map, i)

\* the end of iteration i, which leaves current_sort, and the iterations
\* behind it, with pre_p the primary token of entry i
next_level(current_sort, sort_map, i) ==
    after_pass(current_sort, sort_levels(current_sort, sort_map, i + 1, FALSE, sort_map[i][1]))

Return(value, list_) ==
    [raised |-> "", ret |-> value, list_ |-> list_, passes |-> <<>>]

Raise(exception, list_) ==
    [raised |-> exception, ret |-> <<>>, list_ |-> list_, passes |-> <<>>]

\* an outcome of sort_subsort with the passes its loop made
with_passes(outcome, passes) == [outcome EXCEPT !.passes = passes]

\* sort_map = [(t, 0) for t in sort_map]
\* the indices paired with the subtoken index 1
with_one_subtoken(sort_map) == [i \in 1..Len(sort_map) |-> <<sort_map[i].v[1], 1>>]

with_zero_subtoken(sort_map) == [i \in 1..Len(sort_map) |-> <<sort_map[i].v[1], 0>>]

\* the tuples of a list of 2-tuples
as_pairs(sort_map) == [i \in 1..Len(sort_map) |-> sort_map[i].v]

\* a line joined with the semicolon
join_line_semicolon(line) == str_join(";", line)

\* ",".join(line)
join_line(line) == str_join(",", line)

\* the end of sort_subsort: list_ when the grouping loop aborted, else
\* final_sort with the joined lines of current_sort appended
sort_subsort_end(final_sort, list_, r) ==
    IF r.abort THEN with_passes(Return(list_, list_), r.passes)
    ELSE with_passes(Return(final_sort \o [i \in 1..Len(r.current_sort) |->
                                               Str(join_line(r.current_sort[i]))],
                            list_),
                     r.passes)

(***************************************************************************)
(* quicksort, on lists of integers.                                        *)
(***************************************************************************)
\* x < pivot, x == pivot, x > pivot
\* a float that is not a number compares False with every value, itself
\* included, under each of the three operators
less_than(x, pivot) == ~is_nan(x) /\ ~is_nan(pivot) /\ x.v[1] < pivot.v[1]

equal_to(x, pivot) == ~is_nan(x) /\ ~is_nan(pivot) /\ x.v[1] = pivot.v[1]

greater_than(x, pivot) == ~is_nan(x) /\ ~is_nan(pivot) /\ x.v[1] > pivot.v[1]

\* the members at or below the pivot
quicksort_less_or_equal(list_, pivot) ==
    SelectSeq(list_, LAMBDA x : less_than(x, pivot) \/ equal_to(x, pivot))

\* the members the loop "for x in list_" appends to less, equal and greater
quicksort_less(list_, pivot) == SelectSeq(list_, LAMBDA x : less_than(x, pivot))

\* the pivot alone
quicksort_equal_pivot(list_, pivot) == <<pivot>>

quicksort_equal(list_, pivot) ==
    SelectSeq(list_, LAMBDA x : ~less_than(x, pivot) /\ equal_to(x, pivot))

quicksort_greater(list_, pivot) ==
    SelectSeq(list_, LAMBDA x : /\ ~less_than(x, pivot)
                                /\ ~equal_to(x, pivot)
                                /\ greater_than(x, pivot))

RECURSIVE quicksort(_)
\* quicksort of an argument that is a list (an argument of another type is
\* returned as it is, and is not among the calls made here)
quicksort(list_) ==
    IF Len(list_) > 1
    THEN quicksort(quicksort_less(list_, list_[1]))
         \o quicksort_equal(list_, list_[1])
         \o quicksort(quicksort_greater(list_, list_[1]))
    ELSE list_

\* sort_subsort from the check of sort_map on
sort_subsort_levels(final_sort, list_, current_sort, sort_map) ==
    IF check_types(sort_map, "int")
    THEN IF Len(current_sort) > 0 /\ \E i \in 1..Len(sort_map) : sort_map[i].type # "int"
         THEN Raise("TypeError", list_)
         ELSE sort_subsort_end(final_sort, list_,
                  sort_levels(current_sort, with_zero_subtoken(sort_map), 1, TRUE, 0))
    ELSE IF check_types(sort_map, "tuple")
    THEN IF ~(\A i \in 1..Len(sort_map) : Len(sort_map[i].v) = 2)
         THEN Return(list_, list_)
         ELSE sort_subsort_end(final_sort, list_,
                  sort_levels(current_sort, as_pairs(sort_map), 1, TRUE, 0))
    ELSE Return(list_, list_)

\* sort_subsort behind the header pop; list_ is the caller's list as the pop
\* left it
sort_subsort_body(final_sort, list_, sort_map, delimiter) ==
    IF check_types(list_, "str")
    THEN IF \E i \in 1..Len(list_) : list_[i].type # "str"
         THEN Raise("AttributeError", list_)
         ELSE sort_subsort_levels(final_sort, list_,
                  [i \in 1..Len(list_) |-> str_split(list_[i].s, delimiter)], sort_map)
    ELSE IF check_types(list_, "list")
    THEN sort_subsort_levels(final_sort, list_, [i \in 1..Len(list_) |-> list_[i].l], sort_map)
    ELSE Return(list_, list_)

sort_subsort(list_, sort_map, header, delimiter) ==
    IF Len(list_) = 0 THEN Return(list_, list_)
    ELSE sort_subsort_body(IF header THEN <<Head(list_)>> ELSE <<>>,
                           IF header THEN Tail(list_) ELSE list_,
                           sort_map, delimiter)

(***************************************************************************)
(* The inputs the calls are made with.                                     *)
(***************************************************************************)
BoundedSeq(S, n) == UNION {[1..k -> S] : k \in 0..n}

\* records of three comma-delimited fields; fields 0 of "a..." and "A..."
\* have the same natural key and different raw values; field 2 holds the
\* numbers 2 and 10; "b" has no field 1
Records == {"a,x,10", "A,x,2", "A,x,10", "b,x,2", "a,y,2", "b"}

\* the single-field records of the natural-order example
ItemRecords == <<"item2", "item10", "item1">>

\* the rows of the example in the documentation of sort_subsort
HeaderRow == "Sample_ID,Sample_Name,Sample_Plate,Sample_Well,Sample_Project"

ExampleRows ==
    << "2-536381,BTY659A2081,27-116458,1:01,LIU583",
       "2-536382,BTY659A2082,27-116458,1:01,LIU583",
       "2-536383,BTY659A2083,27-116459,1:01,LIU582",
       "2-536384,BTY659A2084,27-116459,1:01,LIU582",
       "2-536385,BTY659A2085,27-116460,1:01,BTY217",
       "2-536386,BTY659A2086,27-116460,1:01,BTY217",
       "2-536387,BTY659A2087,27-116461,1:01,BTY218",
       "2-536388,BTY659A2088,27-116461,1:01,BTY218" >>

ExampleSortMap == <<Tuple(<<4, 0>>), Tuple(<<4, 1>>), Tuple(<<1, 3>>)>>

Strs(texts) == [i \in 1..Len(texts) |-> Str(texts[i])]

\* sort_map arguments: well-formed ones of one to three levels, one given as
\* bare indices, and malformed ones
WellFormedSortMaps ==
    { <<Tuple(<<0, 0>>)>>,
      <<Tuple(<<2, 0>>)>>,
      <<Tuple(<<0, 0>>), Tuple(<<1, 0>>)>>,
      <<Tuple(<<0, 0>>), Tuple(<<0, 0>>)>>,
      <<Tuple(<<0, 0>>), Tuple(<<1, 0>>), Tuple(<<2, 0>>)>>,
      <<Tuple(<<1, 0>>), Tuple(<<0, 0>>), Tuple(<<2, 0>>)>> }

MalformedSortMaps ==
    { <<Tuple(<<0, 0, 0>>)>>,
      <<Tuple(<<0, 0>>), Tuple(<<1>>)>>,
      <<Integer(0), Tuple(<<1, 0>>)>>,
      <<IntList(<<0, 0>>), IntList(<<2, 0>>)>> }

SortMaps == WellFormedSortMaps \cup {<<Integer(0), Integer(2)>>} \cup MalformedSortMaps

Delimiters == {","}

\* records of semicolon-delimited fields, one of them with a comma in a
\* field, and a record in which no semicolon occurs
SemicolonRecords == {"b;x;2", "a;x,y;10", "a,x"}

SemicolonSortMaps == {<<Tuple(<<0, 0>>)>>, <<Tuple(<<2, 0>>)>>, <<Tuple(<<0, 0>>), Tuple(<<2, 0>>)>>}

\* the longest list_ whose members are not all strings
MaxMixedLen == 2

\* pre-tokenized records
TokenRecords == {<<"a", "x", "10">>, <<"b", "x", "2">>}

\* the longest list_ that quicksort is called with, but for QuickExample
MaxQuickLen == 4

\* the largest integer in a list_ that quicksort is called with
MaxQuickValue == 3

QuickValues == 1..MaxQuickValue

\* the list [3, 1, 2, 3, 1]
QuickExample == <<Integer(3), Integer(1), Integer(2), Integer(3), Integer(1)>>

\* records of at most one field, whose keys begin with an int or with a
\* str, are prefixes of one another, are empty, or are the int 0 of a
\* missing field
KeyRecords == {<<"7">>, <<"x">>, <<"X7">>, <<"x7y">>, <<"-">>, <<>>}

\* the most Timer objects that a RepeatingCaller creates
MaxTimers == 3

\* the greatest total_cycles
MaxCycles == 2

Threads == 0..MaxTimers

\* the lists that quicksort is called with: integers, and floats that are
\* not a number
QuickLists ==
    BoundedSeq({Integer(n) : n \in QuickValues} \cup {NaN}, MaxQuickLen) \cup {QuickExample}

VARIABLES
    fn,         \* the function that is called
    list_,      \* the list object the caller passes
    sort_map,   \* sort_subsort's sort_map argument
    header,     \* sort_subsort's header argument
    delimiter,  \* sort_subsort's delimiter argument
    pos,        \* natural_sort's pos argument
    subtoken,   \* natural_sort's subtoken argument
    input,      \* the members of list_ when the first call was made
    first,      \* what the first call returned, once a second call is made
    result,     \* what the latest call returned
    raised,     \* the exception the latest call raised, "" if none
    passes,     \* current_sort at the end of each iteration of the loop over
                \* sort_map that the latest call of sort_subsort made
    pc,         \* "ready", "returned" (one call made), "again" (two calls),
                \* "recursing" (quicksort runs call by call)
    stack,      \* the arguments of the calls of quicksort that are still to
                \* run, the next one first
    thread,     \* RepeatingCaller: where each thread stands; thread 0 is the
                \* thread that constructs the object, thread t >= 1 is the
                \* t-th threading.Timer that start() creates
    _timer,     \* self._timer: the number of a Timer, 0 for None
    is_running, \* self.is_running
    cycle_count,    \* self.cycle_count
    total_cycles,   \* self.total_cycles
    loaded,     \* per thread, the value of self.cycle_count that
                \* "self.cycle_count += 1" has read
    calls       \* the number of times self.function was called

quickVars == <<stack>>

callerVars == <<thread, _timer, is_running, cycle_count, total_cycles, loaded, calls>>

sortVars == <<fn, list_, sort_map, header, delimiter, pos, subtoken,
              input, first, result, raised, passes, pc>>

vars == <<sortVars, quickVars, callerVars>>

\* the RepeatingCaller that has not been constructed
NoCaller ==
    /\ thread = [t \in Threads |-> "unused"]
    /\ _timer = 0
    /\ is_running = FALSE
    /\ cycle_count = 0
    /\ total_cycles = 0
    /\ loaded = [t \in Threads |-> 0]
    /\ calls = 0

Init ==
    /\ \/ /\ fn = "sort_subsort"
          /\ \/ /\ list_ \in BoundedSeq({Str(r) : r \in Records}, MaxLen)
                /\ sort_map \in SortMaps
             \/ /\ list_ \in BoundedSeq({Str(r) : r \in Records} \cup {Integer(7)}
                                          \cup {List(t) : t \in TokenRecords}, MaxMixedLen)
                /\ sort_map \in {<<Tuple(<<0, 0>>)>>, <<Tuple(<<0, 0>>), Tuple(<<2, 0>>)>>}
             \/ /\ list_ \in {Strs(ItemRecords)}
                /\ sort_map \in {<<Tuple(<<0, 0>>)>>}
             \/ /\ list_ \in {Strs(ExampleRows), Strs(<<HeaderRow>> \o ExampleRows)}
                /\ sort_map \in {SubSeq(ExampleSortMap, 1, k) : k \in 1..3}
          /\ header \in BOOLEAN
          /\ delimiter \in Delimiters
          /\ pos = 0
          /\ subtoken = None
       \/ /\ fn = "sort_subsort"
          /\ list_ \in BoundedSeq({Str(r) : r \in SemicolonRecords}, MaxLen)
          /\ sort_map \in SemicolonSortMaps
          /\ header \in BOOLEAN
          /\ delimiter = ";"
          /\ pos = 0
          /\ subtoken = None
       \/ /\ fn = "natural_sort"
          /\ list_ \in BoundedSeq({List(str_split(r, ",")) : r \in Records}, MaxLen)
                           \cup {[i \in 1..Len(ItemRecords) |-> List(<<ItemRecords[i]>>)]}
          /\ pos \in 0..2
          /\ subtoken \in {None, Index(0), Index(1), Index(2)}
          /\ sort_map = <<>>
          /\ header = FALSE
          /\ delimiter = ","
       \/ /\ fn = "natural_sort"
          /\ list_ \in BoundedSeq({List(r) : r \in KeyRecords}, MaxLen)
          /\ pos = 0
          /\ subtoken \in {None, Index(0), Index(1)}
          /\ sort_map = <<>>
          /\ header = FALSE
          /\ delimiter = ","
       \/ /\ fn = "quicksort"
          /\ list_ \in QuickLists
          /\ sort_map = <<>>
          /\ header = FALSE
          /\ delimiter = ","
          /\ pos = 0
          /\ subtoken = None
    /\ input = list_
    /\ first = <<>>
    /\ result = <<>>
    /\ raised = ""
    /\ passes = <<>>
    /\ pc = "ready"
    /\ stack = <<>>
    /\ NoCaller

\* result = sort_subsort(list_, sort_map, header, delimiter)
CallSortSubsort ==
    /\ pc = "ready"
    /\ fn = "sort_subsort"
    /\ \E r \in {sort_subsort(list_, sort_map, header, delimiter)} :
          /\ result' = r.ret
          /\ raised' = r.raised
          /\ list_' = r.list_
          /\ passes' = r.passes
    /\ pc' = "returned"
    /\ UNCHANGED <<fn, sort_map, header, delimiter, pos, subtoken, input, first>>
    /\ UNCHANGED <<quickVars, callerVars>>

\* result = sort_subsort(result, sort_map, header, delimiter): the caller
\* sorts the returned list once more
CallSortSubsortAgain ==
    /\ pc = "returned"
    /\ fn = "sort_subsort"
    /\ raised = ""
    /\ \E r \in {sort_subsort(result, sort_map, header, delimiter)} :
          /\ result' = r.ret
          /\ raised' = r.raised
          /\ passes' = r.passes
    /\ first' = result
    /\ pc' = "again"
    /\ UNCHANGED <<fn, list_, sort_map, header, delimiter, pos, subtoken, input>>
    /\ UNCHANGED <<quickVars, callerVars>>

\* result = natural_sort(list_, pos, subtoken)
CallNaturalSort ==
    /\ pc = "ready"
    /\ fn = "natural_sort"
    /\ \E r \in {natural_sort([i \in 1..Len(list_) |-> list_[i].l], pos, subtoken)} :
          result' = [i \in 1..Len(r) |-> List(r[i])]
    /\ pc' = "returned"
    /\ UNCHANGED <<fn, list_, sort_map, header, delimiter, pos, subtoken,
                   input, first, raised, passes>>
    /\ UNCHANGED <<quickVars, callerVars>>

\* result = quicksort(list_)
CallQuicksort ==
    /\ pc = "ready"
    /\ fn = "quicksort"
    /\ result' = quicksort(list_)
    /\ pc' = "returned"
    /\ UNCHANGED <<fn, list_, sort_map, header, delimiter, pos, subtoken,
                   input, first, raised, passes>>
    /\ UNCHANGED <<quickVars, callerVars>>

Next == CallSortSubsort \/ CallSortSubsortAgain \/ CallNaturalSort \/ CallQuicksort

Spec == Init /\ [][Next]_vars

(***************************************************************************)
(* quicksort, call by call: a call on a list of two or more members makes  *)
(* the call on less, which runs to its end, and then the call on greater.  *)
(***************************************************************************)
QuickInit ==
    /\ fn = "quicksort"
    /\ list_ \in QuickLists
    /\ sort_map = <<>>
    /\ header = FALSE
    /\ delimiter = ","
    /\ pos = 0
    /\ subtoken = None
    /\ input = list_
    /\ first = <<>>
    /\ result = <<>>
    /\ raised = ""
    /\ passes = <<>>
    /\ pc = "recursing"
    /\ stack = <<list_>>
    /\ NoCaller

\* the next call has a list of two or more members: it partitions the list
\* and makes the calls on less and on greater
QuickRecurse ==
    /\ pc = "recursing"
    /\ Len(stack) > 0
    /\ Len(Head(stack)) > 1
    /\ stack' = <<quicksort_less(Head(stack), Head(stack)[1]),
                  quicksort_greater(Head(stack), Head(stack)[1])>> \o Tail(stack)
    /\ UNCHANGED <<sortVars, callerVars>>

\* the next call has a list of at most one member and returns it
QuickReturn ==
    /\ pc = "recursing"
    /\ Len(stack) > 0
    /\ Len(Head(stack)) <= 1
    /\ stack' = Tail(stack)
    /\ UNCHANGED <<sortVars, callerVars>>

QuickNext == QuickRecurse \/ QuickReturn

\* a call that can run does run
QuickSpec == QuickInit /\ [][QuickNext]_vars /\ WF_vars(QuickNext)

(***************************************************************************)
(* threading_tools.RepeatingCaller.  Every statement of start, _run and    *)
(* stop is a step of the thread that runs it, and the steps of the threads *)
(* interleave.  A Timer is "created", "waiting" once started, and runs     *)
(* _run in its own thread when its interval has passed; cancel() keeps a   *)
(* Timer that has not fired from running _run.                             *)
(***************************************************************************)
\* the number of Timer objects created so far
created == Cardinality({t \in 1..MaxTimers : thread[t] # "unused"})

\* where a thread goes on behind a call of start() and of stop()
after_start(t) == IF t = 0 THEN "constructed" ELSE "run_call"

after_stop(t) == IF t = 0 THEN "stopped" ELSE "finished"

\* RepeatingCaller(interval, total_cycles, function): __init__ up to its
\* call of start()
CallerInit ==
    /\ fn = "RepeatingCaller"
    /\ list_ = <<>>
    /\ sort_map = <<>>
    /\ header = FALSE
    /\ delimiter = ","
    /\ pos = 0
    /\ subtoken = None
    /\ input = <<>>
    /\ first = <<>>
    /\ result = <<>>
    /\ raised = ""
    /\ passes = <<>>
    /\ pc = "threads"
    /\ stack = <<>>
    /\ thread = [t \in Threads |-> IF t = 0 THEN "start_test" ELSE "unused"]
    /\ _timer = 0
    /\ is_running = FALSE
    /\ cycle_count = 0
    /\ total_cycles \in 1..MaxCycles
    /\ loaded = [t \in Threads |-> 0]
    /\ calls = 0

\* start: if not self.is_running
start_test(t) ==
    /\ thread[t] = "start_test"
    /\ thread' = [thread EXCEPT ![t] = IF is_running THEN after_start(t) ELSE "start_new"]
    /\ UNCHANGED <<_timer, is_running, cycle_count, total_cycles, loaded, calls>>
    /\ UNCHANGED <<sortVars, quickVars>>

\* start: self._timer = threading.Timer(self.interval, self._run)
start_new(t) ==
    /\ thread[t] = "start_new"
    /\ created < MaxTimers
    /\ thread' = [thread EXCEPT ![t] = "start_timer", ![created + 1] = "created"]
    /\ _timer' = created + 1
    /\ UNCHANGED <<is_running, cycle_count, total_cycles, loaded, calls>>
    /\ UNCHANGED <<sortVars, quickVars>>

\* start: self._timer.start(), which raises RuntimeError for a Timer that
\* was started before
start_timer(t) ==
    /\ thread[t] = "start_timer"
    /\ thread' = IF thread[_timer] = "created"
                    THEN [thread EXCEPT ![t] = "start_set", ![_timer] = "waiting"]
                 ELSE IF thread[_timer] = "created_cancelled"
                    THEN [thread EXCEPT ![t] = "start_set", ![_timer] = "cancelled"]
                 ELSE [thread EXCEPT ![t] = "raised"]
    /\ UNCHANGED <<_timer, is_running, cycle_count, total_cycles, loaded, calls>>
    /\ UNCHANGED <<sortVars, quickVars>>

\* start: self.is_running = True
start_set(t) ==
    /\ thread[t] = "start_set"
    /\ is_running' = TRUE
    /\ thread' = [thread EXCEPT ![t] = after_start(t)]
    /\ UNCHANGED <<_timer, cycle_count, total_cycles, loaded, calls>>
    /\ UNCHANGED <<sortVars, quickVars>>

\* the interval of a waiting Timer has passed: its thread begins _run
timer_fires(t) ==
    /\ thread[t] = "waiting"
    /\ thread' = [thread EXCEPT ![t] = "run_clear"]
    /\ UNCHANGED <<_timer, is_running, cycle_count, total_cycles, loaded, calls>>
    /\ UNCHANGED <<sortVars, quickVars>>

\* _run: self.is_running = False, and the call of start() begins
run_clear(t) ==
    /\ thread[t] = "run_clear"
    /\ is_running' = FALSE
    /\ thread' = [thread EXCEPT ![t] = "start_test"]
    /\ UNCHANGED <<_timer, cycle_count, total_cycles, loaded, calls>>
    /\ UNCHANGED <<sortVars, quickVars>>

\* _run: self.function(*self.args, **self.kwargs)
run_call(t) ==
    /\ thread[t] = "run_call"
    /\ calls' = calls + 1
    /\ thread' = [thread EXCEPT ![t] = "run_load"]
    /\ UNCHANGED <<_timer, is_running, cycle_count, total_cycles, loaded>>
    /\ UNCHANGED <<sortVars, quickVars>>

\* _run: self.cycle_count += 1, the read
run_load(t) ==
    /\ thread[t] = "run_load"
    /\ loaded' = [loaded EXCEPT ![t] = cycle_count]
    /\ thread' = [thread EXCEPT ![t] = "run_store"]
    /\ UNCHANGED <<_timer, is_running, cycle_count, total_cycles, calls>>
    /\ UNCHANGED <<sortVars, quickVars>>

\* _run: self.cycle_count += 1, the write
run_store(t) ==
    /\ thread[t] = "run_store"
    /\ cycle_count' = loaded[t] + 1
    /\ thread' = [thread EXCEPT ![t] = "run_check"]
    /\ UNCHANGED <<_timer, is_running, total_cycles, loaded, calls>>
    /\ UNCHANGED <<sortVars, quickVars>>

\* _run: if self.cycle_count == self.total_cycles: self.stop()
run_check(t) ==
    /\ thread[t] = "run_check"
    /\ thread' = [thread EXCEPT ![t] = IF cycle_count = total_cycles
                                       THEN "stop_cancel" ELSE "finished"]
    /\ UNCHANGED <<_timer, is_running, cycle_count, total_cycles, loaded, calls>>
    /\ UNCHANGED <<sortVars, quickVars>>

\* the thread that constructed the object calls stop()
call_stop ==
    /\ thread[0] = "constructed"
    /\ thread' = [thread EXCEPT ![0] = "stop_cancel"]
    /\ UNCHANGED <<_timer, is_running, cycle_count, total_cycles, loaded, calls>>
    /\ UNCHANGED <<sortVars, quickVars>>

\* stop: self._timer.cancel()
stop_cancel(t) ==
    /\ thread[t] = "stop_cancel"
    /\ thread' = [thread EXCEPT
                     ![t] = "stop_clear",
                     ![_timer] = IF t = _timer THEN "stop_clear"
                                 ELSE IF @ = "waiting" THEN "cancelled"
                                 ELSE IF @ = "created" THEN "created_cancelled"
                                 ELSE @]
    /\ UNCHANGED <<_timer, is_running, cycle_count, total_cycles, loaded, calls>>
    /\ UNCHANGED <<sortVars, quickVars>>

\* stop: self.is_running = False
stop_clear(t) ==
    /\ thread[t] = "stop_clear"
    /\ is_running' = FALSE
    /\ thread' = [thread EXCEPT ![t] = after_stop(t)]
    /\ UNCHANGED <<_timer, cycle_count, total_cycles, loaded, calls>>
    /\ UNCHANGED <<sortVars, quickVars>>

CallerNext ==
    \/ call_stop
    \/ \E t \in Threads :
          \/ start_test(t)
          \/ start_new(t)
          \/ start_timer(t)
          \/ start_set(t)
          \/ timer_fires(t)
          \/ run_clear(t)
          \/ run_call(t)
          \/ run_load(t)
          \/ run_store(t)
          \/ run_check(t)
          \/ stop_cancel(t)
          \/ stop_clear(t)

CallerSpec == CallerInit /\ [][CallerNext]_vars

(***************************************************************************)
(* Vocabulary of the properties.                                           *)
(***************************************************************************)
Texts(values) == [i \in 1..Len(values) |-> values[i].s]

AllStr(values) == \A i \in 1..Len(values) : values[i].type = "str"

\* a sort_map of k >= 1 tuples of two integers
WellFormed(m) ==
    /\ Len(m) >= 1
    /\ \A i \in 1..Len(m) : m[i].type = "tuple" /\ Len(m[i].v) = 2

Levels(m) == [i \in 1..Len(m) |-> m[i].v]

\* the data rows the caller passed and the data rows it got back
DataIn == IF header THEN Tail(input) ELSE input

DataOut == IF header /\ Len(result) > 0 THEN Tail(result) ELSE result

Fields(value) == str_split(value.s, delimiter)

FieldsOf(values) == [i \in 1..Len(values) |-> Fields(values[i])]

NaturalKey(record, level) == alphanum_key(record, level[1], Index(level[2]))

\* every data row has the field each grouping step looks up
Groupable(m) ==
    \A i \in 1..Len(DataIn), k \in 1..(Len(m) - 1) : InRange(Fields(DataIn[i]), m[k].v[1])

\* sort_subsort was called on string records with a well-formed sort_map
\* and ran the cascade to its end
SortedAnyDelimiter ==
    /\ fn = "sort_subsort"
    /\ pc = "returned"
    /\ raised = ""
    /\ Len(input) > 0
    /\ AllStr(input)
    /\ WellFormed(sort_map)
    /\ Groupable(sort_map)

\* the same, for records delimited by the comma, so that the rows that come
\* back split into the fields they were joined from
Sorted == SortedAnyDelimiter /\ delimiter = ","

(***************************************************************************)
(* The cascade, stated without the code's loops: a stable sort puts the    *)
(* record at index i behind the records with a smaller key and behind the  *)
(* earlier records with the same key.                                      *)
(***************************************************************************)
Rank(records, i, level) ==
    1 + Cardinality({j \in 1..Len(records) :
            LET c == key_cmp(NaturalKey(records[j], level), NaturalKey(records[i], level))
            IN  c < 0 \/ (c = 0 /\ j < i)})

SortByNaturalKey(records, level) ==
    [k \in 1..Len(records) |->
        records[CHOOSE i \in 1..Len(records) : Rank(records, i, level) = k]]

RECURSIVE RegroupFrom(_, _, _, _)
\* the groups of the records from index i on that open a group, each sorted
RegroupFrom(records, i, prevField, level) ==
    IF i > Len(records) THEN <<>>
    ELSE LET raw == records[i][prevField + 1]
             opens == \A j \in 1..(i - 1) : records[j][prevField + 1] # raw
             group == SelectSeq(records, LAMBDA r : r[prevField + 1] = raw)
         IN  (IF opens THEN SortByNaturalKey(group, level) ELSE <<>>)
             \o RegroupFrom(records, i + 1, prevField, level)

RECURSIVE Cascade(_, _, _)
\* the cascade from level i (1-based) on
Cascade(records, levels, i) ==
    IF i > Len(levels) THEN records
    ELSE IF i = 1 THEN Cascade(SortByNaturalKey(records, levels[1]), levels, 2)
    ELSE Cascade(RegroupFrom(records, 1, levels[i - 1][1], levels[i]), levels, i + 1)

\* C1: for string records and a well-formed sort_map, the data rows that
\* sort_subsort returns are the result of the cascade: a stable natural sort
\* on level 0, then per later level a partition by the raw value of the
\* previous level's field, a stable natural sort of each group on the
\* level's own (field, offset), and the groups concatenated in first-seen
\* order.
C1_CascadeResult ==
    Sorted => FieldsOf(DataOut) = Cascade(FieldsOf(DataIn), Levels(sort_map), 1)

\* a three-level sort that moved rows, on rows among which two have the same
\* natural key and different raw values in the first level's field
C1_Witness ==
    /\ Sorted
    /\ Len(sort_map) = 3
    /\ result # input
    /\ \E i, j \in 1..Len(DataIn) :
          LET a == Fields(DataIn[i])
              b == Fields(DataIn[j])
              f == sort_map[1].v[1]
          IN  /\ a[f + 1] # b[f + 1]
              /\ key_cmp(NaturalKey(a, sort_map[1].v), NaturalKey(b, sort_map[1].v)) = 0

\* two records have equal natural keys at every level of the sort_map
TiedOnEveryLevel(a, b, m) ==
    \A k \in 1..Len(m) : key_cmp(NaturalKey(a, m[k].v), NaturalKey(b, m[k].v)) = 0

Occurrences(values, x) == Cardinality({i \in 1..Len(values) : values[i] = x})

IndexOf(values, x) == CHOOSE i \in 1..Len(values) : values[i] = x

\* C2: two records of the input whose natural keys are equal at every level
\* of the sort_map are in the same relative order in the output as in the
\* input (stated for records that occur once, so that their places in the
\* output are determined).
C2_StableOnTies ==
    Sorted =>
        \A i, j \in 1..Len(DataIn) :
            ( /\ i < j
              /\ Occurrences(DataIn, DataIn[i]) = 1
              /\ Occurrences(DataIn, DataIn[j]) = 1
              /\ TiedOnEveryLevel(Fields(DataIn[i]), Fields(DataIn[j]), sort_map) )
            => /\ Occurrences(DataOut, DataIn[i]) = 1
               /\ Occurrences(DataOut, DataIn[j]) = 1
               /\ IndexOf(DataOut, DataIn[i]) < IndexOf(DataOut, DataIn[j])

\* C3: sorting the list that sort_subsort(L, M) returned once more with the
\* same well-formed sort_map (and no header, as in the call of the claim)
\* returns the same list, element for element.
C3_Idempotent ==
    ( /\ fn = "sort_subsort"
      /\ pc = "again"
      /\ ~header
      /\ AllStr(input)
      /\ WellFormed(sort_map) )
    => raised = "" /\ result = first

\* C4: with header=True and a non-empty input, the first element of the
\* list that sort_subsort returns is the first element of the input, on
\* every return path.
C4_HeaderFirst ==
    ( /\ fn = "sort_subsort"
      /\ pc = "returned"
      /\ header
      /\ Len(input) > 0 )
    => /\ raised = ""
       /\ Len(result) > 0
       /\ result[1] = input[1]

\* the number of times each value occurs in a sequence
Multiset(values) ==
    [x \in {values[i] : i \in 1..Len(values)} |-> Occurrences(values, x)]

\* C5: on every return path of sort_subsort the returned sequence holds the
\* records of the input sequence, each as often as the input does.
C5_MultisetPreserved ==
    (fn = "sort_subsort" /\ pc = "returned" /\ raised = "")
    => Multiset(result) = Multiset(input)

NonDecreasing(records, level) ==
    \A i \in 1..(Len(records) - 1) :
        key_cmp(NaturalKey(records[i], level), NaturalKey(records[i + 1], level)) <= 0

\* C6: after sort_subsort with a well-formed sort_map of any number of
\* levels, the output data rows are in non-decreasing order of the first
\* level's natural key.
C6_FirstLevelOrder ==
    Sorted => NonDecreasing(FieldsOf(DataOut), sort_map[1].v)

\* natural_sort was called and has returned
NaturallySorted == fn = "natural_sort" /\ pc = "returned"

TokensOf(values) == [i \in 1..Len(values) |-> values[i].l]

\* C7: a single-level sort orders records by natural order: the records with
\* field values item2, item10, item1 come out as item1, item2, item10, and
\* the output of every single-level sort is non-decreasing in the natural
\* key of the field.
C7_NaturalOrder ==
    /\ (Sorted /\ Len(sort_map) = 1)
       => /\ NonDecreasing(FieldsOf(DataOut), sort_map[1].v)
          /\ (~header /\ Texts(input) = ItemRecords)
             => Texts(result) = <<"item1", "item2", "item10">>
    /\ (NaturallySorted /\ ~subtoken.none)
       => /\ NonDecreasing(TokensOf(result), <<pos, subtoken.v>>)
          /\ (TokensOf(input) = [i \in 1..3 |-> <<ItemRecords[i]>>] /\ pos = 0 /\ subtoken.v = 0)
             => TokensOf(result) = <<<<"item1">>, <<"item2">>, <<"item10">>>>

\* the example records were sorted on field 0, item10 behind item2
C7_Witness ==
    /\ Sorted
    /\ ~header
    /\ Texts(input) = ItemRecords
    /\ Texts(result) = <<"item1", "item2", "item10">>

\* field number f (0-based) of each row
Column(values, f) == [i \in 1..Len(values) |-> Fields(values[i])[f + 1]]

\* the call is the example of the documentation: the eight rows, with the
\* header row in front when header is True, and the three-level sort_map
IsExampleCall ==
    /\ Texts(input) = (IF header THEN <<HeaderRow>> ELSE <<>>) \o ExampleRows
    /\ sort_map = ExampleSortMap

\* C8: for the eight rows of the example and sort_map [(4,0), (4,1), (1,3)]
\* the Project column of the output reads BTY217, BTY217, BTY218, BTY218,
\* LIU582, LIU582, LIU583, LIU583, and the output is the one the first two
\* levels alone produce.
C8_WorkedExample ==
    (Sorted /\ IsExampleCall)
    => /\ Column(DataOut, 4) = <<"BTY217", "BTY217", "BTY218", "BTY218",
                                 "LIU582", "LIU582", "LIU583", "LIU583">>
       /\ result = sort_subsort(input, SubSeq(ExampleSortMap, 1, 2), header, delimiter).ret

\* the example was sorted and its rows changed places
C8_Witness ==
    /\ Sorted
    /\ IsExampleCall
    /\ Len(result) = Len(input)
    /\ result # input

\* the bijections of 1..n
Bijections(n) == {f \in [1..n -> 1..n] : \A i, j \in 1..n : f[i] = f[j] => i = j}

\* C9: natural_sort returns a permutation of list_ in non-decreasing order
\* of the natural key of field pos, and records with equal keys keep their
\* input order.
C9_StableSort ==
    NaturallySorted =>
        LET in == TokensOf(input)
            out == TokensOf(result)
            K(record) == alphanum_key(record, pos, subtoken)
        IN  /\ Len(out) = Len(in)
            /\ \E f \in Bijections(Len(in)) :
                  /\ \A i \in 1..Len(in) : out[i] = in[f[i]]
                  /\ \A i, j \in 1..Len(in) :
                        i < j => \/ key_cmp(K(out[i]), K(out[j])) < 0
                                 \/ key_cmp(K(out[i]), K(out[j])) = 0 /\ f[i] < f[j]

\* natural_sort returned a list in which two different records with equal
\* keys follow a record it moved in front of them
C9_Witness ==
    /\ NaturallySorted
    /\ result # input
    /\ \E i, j \in 1..Len(result) :
          /\ i < j
          /\ result[i] # result[j]
          /\ key_cmp(alphanum_key(result[i].l, pos, subtoken),
                     alphanum_key(result[j].l, pos, subtoken)) = 0

\* a list of tuples of which at least one has not exactly two components
HasBadTuple(m) ==
    /\ Len(m) >= 1
    /\ \A i \in 1..Len(m) : m[i].type = "tuple"
    /\ \E i \in 1..Len(m) : Len(m[i].v) # 2

\* C10: for a sort_map that is a list of tuples of which at least one has
\* not exactly two components, sort_subsort raises no exception and returns
\* the input sequence unchanged.
C10_MalformedSortMapNoOp ==
    ( /\ fn = "sort_subsort"
      /\ pc = "returned"
      /\ AllStr(input)
      /\ HasBadTuple(sort_map) )
    => raised = "" /\ result = input

\* list_ holds both delimited strings and pre-tokenized records
MixedRecords(values) ==
    /\ \E i \in 1..Len(values) : values[i].type = "str"
    /\ \E i \in 1..Len(values) : values[i].type = "list"
    /\ \A i \in 1..Len(values) : values[i].type \in {"str", "list"}

\* C11: when list_ mixes delimited strings and pre-tokenized field lists,
\* sort_subsort raises no exception and returns the input unchanged.
C11_MixedInputNoOp ==
    ( /\ fn = "sort_subsort"
      /\ pc = "returned"
      /\ MixedRecords(input) )
    => raised = "" /\ result = input

\* every member of list_ is a pre-tokenized record, a list of field strings
PreTokenized(values) ==
    /\ Len(values) > 0
    /\ \A i \in 1..Len(values) : values[i].type = "list" /\ Len(values[i].l) > 0

\* the records of a pre-tokenized list_, each joined with the delimiter
Joined(values) == [i \in 1..Len(values) |-> Str(str_join(delimiter, values[i].l))]

\* C12: for pre-tokenized records and a well-formed sort_map sort_subsort
\* raises no exception and returns what it returns for the same records
\* given as delimiter-joined strings.
C12_PreTokenizedAccepted ==
    ( /\ fn = "sort_subsort"
      /\ pc = "returned"
      /\ PreTokenized(input)
      /\ WellFormed(sort_map) )
    => /\ raised = ""
       /\ result = sort_subsort(Joined(input), sort_map, header, delimiter).ret

\* quicksort was called and has returned
Quicksorted == fn = "quicksort" /\ pc = "returned"

IntsOf(values) == [i \in 1..Len(values) |-> values[i].v[1]]

\* C13: quicksort returns a non-decreasing sequence that is a permutation of
\* its input (same length, each value as often); [3,1,2,3,1] comes out as
\* [1,1,2,3,3]; and the result of a list of two or more is the sorted
\* members below the first element, then the members equal to it, then the
\* sorted members above it.
C13_QuicksortSorts ==
    (Quicksorted /\ \A k \in 1..Len(input) : input[k].type = "int") =>
        /\ \A i \in 1..(Len(result) - 1) : result[i].v[1] <= result[i + 1].v[1]
        /\ Len(result) = Len(input)
        /\ Multiset(result) = Multiset(input)
        /\ (input = QuickExample) => IntsOf(result) = <<1, 1, 2, 3, 3>>
        /\ (Len(input) > 1)
           => result = quicksort(SelectSeq(input, LAMBDA x : x.v[1] < input[1].v[1]))
                       \o SelectSeq(input, LAMBDA x : x.v[1] = input[1].v[1])
                       \o quicksort(SelectSeq(input, LAMBDA x : x.v[1] > input[1].v[1]))

\* the example list was sorted
C13_Witness ==
    /\ Quicksorted
    /\ input = QuickExample
    /\ IntsOf(result) = <<1, 1, 2, 3, 3>>

\* the typed subtokens of field pos of a record
TypedSubtokens(record) == converted(split(record, pos))

\* C14: when the subtoken offset exceeds the number of subtokens of a
\* record's field, the key of the record is the full typed subtoken
\* sequence, the key it gets with offset 0.
C14_OffsetPastEndIgnored ==
    (NaturallySorted /\ ~subtoken.none) =>
        \A i \in 1..Len(input) :
            ( /\ InRange(input[i].l, pos)
              /\ subtoken.v > Len(TypedSubtokens(input[i].l)) )
            => /\ alphanum_key(input[i].l, pos, subtoken)
                  = alphanum_key(input[i].l, pos, Index(0))
               /\ alphanum_key(input[i].l, pos, subtoken).toks = TypedSubtokens(input[i].l)

\* the index of the subtoken natural_sort is called with, 0 when omitted
SubtokenIndex == IF subtoken.none THEN 0 ELSE subtoken.v

\* two records have a subtoken at SubtokenIndex in field pos, and the two
\* subtokens are equal
SameSingleSubtoken(a, b) ==
    /\ InRange(a, pos) /\ InRange(TypedSubtokens(a), SubtokenIndex)
    /\ InRange(b, pos) /\ InRange(TypedSubtokens(b), SubtokenIndex)
    /\ subtoken_cmp(PyIndex(TypedSubtokens(a), SubtokenIndex),
                    PyIndex(TypedSubtokens(b), SubtokenIndex)) = 0

\* C15: natural_sort compares records by the one subtoken at the index
\* subtoken (index 0 when omitted) of field pos: two records that agree on
\* that subtoken are in the output in their input order (stated for records
\* that occur once); and the first level (4,0) alone leaves the LIU583 rows
\* of the documentation's example in front of its LIU582 rows.
C15_SingleSubtokenOnly ==
    /\ NaturallySorted =>
          \A i, j \in 1..Len(input) :
              ( /\ i < j
                /\ Occurrences(input, input[i]) = 1
                /\ Occurrences(input, input[j]) = 1
                /\ SameSingleSubtoken(input[i].l, input[j].l) )
              => IndexOf(result, input[i]) < IndexOf(result, input[j])
    /\ ( /\ Sorted
         /\ Texts(DataIn) = ExampleRows
         /\ sort_map = SubSeq(ExampleSortMap, 1, 1) )
       => Column(DataOut, 4) = <<"BTY217", "BTY217", "BTY218", "BTY218",
                                 "LIU583", "LIU583", "LIU582", "LIU582">>

\* the key of a field that has no alphanumeric character
EmptyKey == [sentinel |-> FALSE, toks |-> <<>>]

\* C16: in natural_sort the key of a record that has no field at index pos
\* is less than the key of every record that has the field and less than the
\* empty key, no exception is raised, and in the output the record stands in
\* front of every record that has the field.
C16_MissingFieldFirst ==
    NaturallySorted =>
        /\ raised = ""
        /\ \A i \in 1..Len(input) :
              ~InRange(input[i].l, pos)
              => /\ key_cmp(alphanum_key(input[i].l, pos, subtoken), EmptyKey) < 0
                 /\ \A j \in 1..Len(input) :
                       InRange(input[j].l, pos)
                       => key_cmp(alphanum_key(input[i].l, pos, subtoken),
                                  alphanum_key(input[j].l, pos, subtoken)) < 0
        /\ \A i, j \in 1..Len(result) :
              (~InRange(result[i].l, pos) /\ InRange(result[j].l, pos)) => i < j

\* natural_sort moved a record without the field in front of a record that
\* has the field and the empty key
C16_Witness ==
    /\ NaturallySorted
    /\ Len(input) >= 2
    /\ InRange(input[1].l, pos)
    /\ alphanum_key(input[1].l, pos, subtoken) = EmptyKey
    /\ ~InRange(input[Len(input)].l, pos)
    /\ ~InRange(result[1].l, pos)
    /\ result[Len(result)] = input[1]

\* sort_subsort was called on string records with a well-formed sort_map
CalledOnRecords ==
    /\ fn = "sort_subsort"
    /\ pc = "returned"
    /\ delimiter = ","
    /\ Len(input) > 0
    /\ Len(DataIn) > 0
    /\ AllStr(input)
    /\ WellFormed(sort_map)

\* a record has no field at an index that the sort_map uses
TooShort(record, m) == \E k \in 1..Len(m) : ~InRange(record, m[k].v[1])

\* exactly one data row of the input is too short
OneShortRecord ==
    Cardinality({i \in 1..Len(DataIn) : TooShort(Fields(DataIn[i]), sort_map)}) = 1

\* the last pass sorted two records together: there is one level, or the
\* two have the same raw value in the field of the level before the last
SameFinalGroup(a, b, m) ==
    \/ Len(m) = 1
    \/ /\ InRange(a, m[Len(m) - 1].v[1])
       /\ InRange(b, m[Len(m) - 1].v[1])
       /\ PyIndex(a, m[Len(m) - 1].v[1]) = PyIndex(b, m[Len(m) - 1].v[1])

\* no exception, the pass of every level made, every record returned, and
\* the records that the last pass sorted together in non-decreasing order of
\* the last level's key, in which a record without the field has the minimal
\* key
SortedWithDegradedKey ==
    /\ raised = ""
    /\ Len(passes) = Len(sort_map)
    /\ Len(result) = Len(input)
    /\ Multiset(result) = Multiset(input)
    /\ \A i, j \in 1..Len(DataOut) :
          (i < j /\ SameFinalGroup(Fields(DataOut[i]), Fields(DataOut[j]), sort_map))
          => key_cmp(NaturalKey(Fields(DataOut[i]), sort_map[Len(sort_map)].v),
                     NaturalKey(Fields(DataOut[j]), sort_map[Len(sort_map)].v)) <= 0

\* C17 as stated: for a well-formed sort_map of any number of levels and one
\* record that is too short for an index the sort_map uses, sort_subsort
\* does not abort and returns all records, sorted, the short record with a
\* degraded key.
C17_ShortRecordNeverAborts ==
    (CalledOnRecords /\ OneShortRecord) => SortedWithDegradedKey

\* C17, amended: when every record has the fields that the grouping steps
\* look up (the fields of every level but the last) and one record is too
\* short for the field of the last level, sort_subsort does not abort and
\* returns all records, those that the last pass sorted together in
\* non-decreasing order of the last level's key with the short record first
\* among them.
C17_ShortRecordInLastLevel ==
    (Sorted /\ OneShortRecord) => SortedWithDegradedKey

\* a two-level sort moved the short record, which the input had behind a
\* record of its group, in front of that record
C17_Witness ==
    /\ Sorted
    /\ OneShortRecord
    /\ Len(sort_map) = 2
    /\ result # input
    /\ \E i, j \in 1..Len(DataIn) :
          /\ i < j
          /\ TooShort(Fields(DataIn[j]), sort_map)
          /\ ~TooShort(Fields(DataIn[i]), sort_map)
          /\ SameFinalGroup(Fields(DataIn[i]), Fields(DataIn[j]), sort_map)
          /\ IndexOf(DataOut, DataIn[j]) < IndexOf(DataOut, DataIn[i])

\* C18: when a data row has no field at the index of a level that a grouping
\* step looks up, sort_subsort raises no exception and returns the input
\* sequence unchanged, the header row included.
C18_GroupingAbortNoOp ==
    (CalledOnRecords /\ ~Groupable(sort_map)) => raised = "" /\ result = input

\* the values of a sequence, each once, in the order of their first places
FirstSeen(values) ==
    LET firsts == {i \in 1..Len(values) : \A j \in 1..(i - 1) : values[j] # values[i]}
    IN  [k \in 1..Cardinality(firsts) |->
            values[CHOOSE i \in firsts : Cardinality({j \in firsts : j <= i}) = k]]

\* field number f (0-based) of each record
RawValues(records, f) == [i \in 1..Len(records) |-> PyIndex(records[i], f)]

\* the grouping step filed records under the raw values of field f: one
\* group per value, the groups in the order in which their values first
\* occur in records, each with its records in the order they have in records
GroupedFirstSeen(sub_lists, records, f) ==
    /\ [k \in 1..Len(sub_lists) |-> sub_lists[k].key] = FirstSeen(RawValues(records, f))
    /\ \A k \in 1..Len(sub_lists) :
          sub_lists[k].val = SelectSeq(records, LAMBDA r : PyIndex(r, f) = sub_lists[k].key)

\* C19: in every pass behind the first that sort_subsort made, the grouping
\* step produced one group per distinct raw value of the previous level's
\* field, the groups in the order of the first appearance of their values
\* in the current sequence and the members of each group in their current
\* relative order (so appending to a group never moves the group).
C19_GroupsFirstSeen ==
    CalledOnRecords =>
        \A i \in 2..Len(passes) :
            LET g == group_lines(passes[i - 1], sort_map[i - 1].v[1], <<>>)
            IN  /\ ~g.abort
                /\ GroupedFirstSeen(g.sub_lists, passes[i - 1], sort_map[i - 1].v[1])

\* a grouping step ran on a sequence in which a record of another group
\* stands between two records of one group
C19_Witness ==
    /\ CalledOnRecords
    /\ Len(passes) >= 2
    /\ \E x, y, z \in 1..Len(passes[1]) :
          /\ x < y /\ y < z
          /\ PyIndex(passes[1][x], sort_map[1].v[1]) = PyIndex(passes[1][z], sort_map[1].v[1])
          /\ PyIndex(passes[1][x], sort_map[1].v[1]) # PyIndex(passes[1][y], sort_map[1].v[1])

\* C20: every pass behind the first changes the relative order of records
\* only inside groups: two records with different raw values of the previous
\* level's field are after the pass in the relative order that they had in
\* the result of the pass before (stated for records that occur once).
C20_OrderAcrossGroupsKept ==
    CalledOnRecords =>
        \A i \in 2..Len(passes) :
            \A x, y \in 1..Len(passes[i - 1]) :
                ( /\ x < y
                  /\ Occurrences(passes[i - 1], passes[i - 1][x]) = 1
                  /\ Occurrences(passes[i - 1], passes[i - 1][y]) = 1
                  /\ PyIndex(passes[i - 1][x], sort_map[i - 1].v[1])
                     # PyIndex(passes[i - 1][y], sort_map[i - 1].v[1]) )
                => IndexOf(passes[i], passes[i - 1][x]) < IndexOf(passes[i], passes[i - 1][y])

\* a sort_map of k >= 1 bare field indices
BareIndices(m) ==
    /\ Len(m) >= 1
    /\ \A i \in 1..Len(m) : m[i].type = "int"

\* the sort_map [(a, 0), (b, 0), ...] for the bare indices [a, b, ...]
PairedWithZero(m) == [i \in 1..Len(m) |-> Tuple(<<m[i].v[1], 0>>)]

\* C21: a call of sort_subsort with a sort_map of bare field indices
\* [a, b, ...] returns what the call with the sort_map [(a,0), (b,0), ...]
\* returns on the same input.
C21_BareIndicesAsPairs ==
    ( /\ fn = "sort_subsort"
      /\ pc = "returned"
      /\ BareIndices(sort_map) )
    => /\ raised = sort_subsort(input, PairedWithZero(sort_map), header, delimiter).raised
       /\ result = sort_subsort(input, PairedWithZero(sort_map), header, delimiter).ret

\* a sort on bare indices moved records
C21_Witness ==
    /\ fn = "sort_subsort"
    /\ pc = "returned"
    /\ BareIndices(sort_map)
    /\ ~header
    /\ raised = ""
    /\ Len(result) = Len(input)
    /\ result # input

\* a sort_map that is neither a list of integers nor a list of tuples
OtherShape(m) ==
    /\ Len(m) >= 1
    /\ \E i \in 1..Len(m) : m[i].type # "int"
    /\ \E i \in 1..Len(m) : m[i].type # "tuple"

\* C22: for a sort_map that is neither a list of integers nor a list of
\* 2-tuples (integers mixed with tuples, or pairs written as lists)
\* sort_subsort raises no exception and returns the input unchanged.
C22_OtherShapeNoOp ==
    ( /\ fn = "sort_subsort"
      /\ pc = "returned"
      /\ AllStr(input)
      /\ OtherShape(sort_map) )
    => raised = "" /\ result = input

\* C23: sort_subsort does not change the list object that the caller
\* passed: after every call the list holds the elements it held before the
\* call, in the same order.
C23_CallerListUnchanged ==
    (fn = "sort_subsort" /\ pc # "ready") => list_ = input

\* a row split at the delimiter and joined with the comma
Rejoined(value) == Str(str_join(",", Fields(value)))

\* the delimiter occurs in a row
DelimiterIn(value) == Len(Fields(value)) > 1

\* C24: on a successful sort every output data row is the fields of a record
\* joined with the comma, whatever the delimiter: the output rows are the
\* rejoined input rows, each as often; they are the input rows themselves,
\* character for character, when the delimiter is the comma, and every
\* input row in which another delimiter occurs comes back as a row that
\* differs from it.
C24_JoinedWithComma ==
    SortedAnyDelimiter =>
        /\ Len(DataOut) = Len(DataIn)
        /\ Multiset(DataOut) = Multiset([i \in 1..Len(DataIn) |-> Rejoined(DataIn[i])])
        /\ (delimiter = ",") => Multiset(DataOut) = Multiset(DataIn)
        /\ (delimiter # ",")
           => \A i \in 1..Len(DataIn) :
                  DelimiterIn(DataIn[i])
                  => /\ Rejoined(DataIn[i]) # DataIn[i]
                     /\ Occurrences(DataOut, DataIn[i]) = 0

\* rows delimited by semicolons were sorted, among them a row without a
\* semicolon, which came back as it was
C24_Witness ==
    /\ SortedAnyDelimiter
    /\ delimiter = ";"
    /\ Texts(DataOut) # Texts(DataIn)
    /\ \E i \in 1..Len(DataIn) : DelimiterIn(DataIn[i])
    /\ \E i \in 1..Len(DataIn) : ~DelimiterIn(DataIn[i]) /\ Occurrences(DataOut, DataIn[i]) = 1

\* the list holds a member that is neither less than, equal to, nor greater
\* than the pivot, its first member
UnorderedMember(values) ==
    /\ Len(values) > 1
    /\ \E i \in 1..Len(values) :
          /\ ~less_than(values[i], values[1])
          /\ ~equal_to(values[i], values[1])
          /\ ~greater_than(values[i], values[1])

\* C25: quicksort raises an exception when the list holds a member that is
\* neither less than, equal to, nor greater than the pivot, and a call that
\* raises nothing returns a list as long as its input.
C25_UnorderedRejected ==
    Quicksorted =>
        /\ UnorderedMember(input) => raised # ""
        /\ (raised = "") => Len(result) = Len(input)

KeyOf(i) == alphanum_key(input[i].l, pos, subtoken)

\* a is b or a proper prefix of b
IsPrefix(a, b) == Len(a) <= Len(b) /\ SubSeq(b, 1, Len(a)) = a

\* two lists of subtokens agree in front of index n, where the first has an
\* int and the second a str
IntAgainstText(a, b, n) ==
    /\ n <= Len(a) /\ n <= Len(b)
    /\ SubSeq(a, 1, n - 1) = SubSeq(b, 1, n - 1)
    /\ a[n].isnum /\ ~b[n].isnum

\* the place that the keys and the input order give member i: behind the
\* members with a smaller key and the earlier members with an equal key
PlaceOf(i) ==
    1 + Cardinality({j \in 1..Len(input) :
            \/ key_cmp(KeyOf(j), KeyOf(i)) < 0
            \/ key_cmp(KeyOf(j), KeyOf(i)) = 0 /\ j < i})

\* C27: the comparison of the keys that natural_sort builds is a total
\* preorder (every two keys are comparable, with opposite outcomes in the
\* two directions, and the order is transitive); an int subtoken orders
\* before a str subtoken at the same position, a proper prefix before the
\* longer key, the empty key first among the lists, and the key of a missing
\* field before every list; and the keys and the input order determine the
\* result.
C27_KeysTotalPreorder ==
    NaturallySorted =>
        /\ \A i, j \in 1..Len(input) :
              /\ key_cmp(KeyOf(i), KeyOf(j)) = 0 - key_cmp(KeyOf(j), KeyOf(i))
              /\ (KeyOf(i) = KeyOf(j)) => key_cmp(KeyOf(i), KeyOf(j)) = 0
              /\ (KeyOf(i).sentinel /\ ~KeyOf(j).sentinel) => key_cmp(KeyOf(i), KeyOf(j)) < 0
              /\ ( /\ ~KeyOf(i).sentinel /\ ~KeyOf(j).sentinel
                   /\ IsPrefix(KeyOf(i).toks, KeyOf(j).toks)
                   /\ KeyOf(i).toks # KeyOf(j).toks )
                 => key_cmp(KeyOf(i), KeyOf(j)) < 0
              /\ ( /\ ~KeyOf(i).sentinel /\ ~KeyOf(j).sentinel
                   /\ \E n \in 1..Len(KeyOf(i).toks) :
                         IntAgainstText(KeyOf(i).toks, KeyOf(j).toks, n) )
                 => key_cmp(KeyOf(i), KeyOf(j)) < 0
        /\ \A i, j, k \in 1..Len(input) :
              (key_cmp(KeyOf(i), KeyOf(j)) <= 0 /\ key_cmp(KeyOf(j), KeyOf(k)) <= 0)
              => key_cmp(KeyOf(i), KeyOf(k)) <= 0
        /\ Len(result) = Len(input)
        /\ \A i \in 1..Len(input) : result[PlaceOf(i)] = input[i]

\* natural_sort ordered a list with a key that begins with an int, a key that
\* begins with a str, and the empty key, which it moved to the front
C27_Witness ==
    /\ NaturallySorted
    /\ result # input
    /\ KeyOf(1) # EmptyKey
    /\ alphanum_key(result[1].l, pos, subtoken) = EmptyKey
    /\ \E i, j \in 1..Len(input) :
          /\ ~KeyOf(i).sentinel /\ ~KeyOf(j).sentinel
          /\ IntAgainstText(KeyOf(i).toks, KeyOf(j).toks, 1)

\* C28: natural_sort called without a subtoken (None) returns the sequence
\* that natural_sort called with subtoken 0 returns, and the keys of the two
\* calls are the same.
C28_NoSubtokenIsZero ==
    (NaturallySorted /\ subtoken.none) =>
        /\ TokensOf(result) = natural_sort(TokensOf(input), pos, Index(0))
        /\ \A i \in 1..Len(input) : KeyOf(i) = alphanum_key(input[i].l, pos, Index(0))

\* natural_sort without a subtoken moved records
C28_Witness ==
    /\ NaturallySorted
    /\ subtoken.none
    /\ result # input

\* no thread other than the Timer threads has called stop()
NoStopFromOutside == thread[0] \notin {"stop_cancel", "stop_clear", "stopped"}

\* C29: a RepeatingCaller with total_cycles = N >= 1 that is left to itself
\* calls its function N times at most and cycle_count never exceeds N,
\* under every interleaving of its Timer threads.
C29_ExactlyTotalCycles ==
    (fn = "RepeatingCaller" /\ NoStopFromOutside)
    => calls <= total_cycles /\ cycle_count <= total_cycles

\* C30: once stop(), called by the thread that constructed the object, has
\* returned, the function is not called again and no new Timer is created.
C30_NothingAfterStop ==
    [][(fn = "RepeatingCaller" /\ thread[0] = "stopped")
       => (calls' = calls /\ created' = created)]_vars

====
